---------------------------- MODULE Spec2Model ----------------------------
(***************************************************************************)
(* Model of src/script.js: the HTML tree visualizer.                       *)
(*                                                                         *)
(* A DOM node is a record                                                  *)
(*   [nodeType, tagName, id, classList, data, childNodes]                  *)
(* where id is the value of the data-node-id attribute (NoId when the      *)
(* attribute is absent), classList holds the marker classes the code       *)
(* reads and writes, data is a text node's characters and childNodes is    *)
(* the ordered sequence of child nodes.                                    *)
(***************************************************************************)
EXTENDS Integers, Sequences, FiniteSets, TLC

\* ------------------------------------------------------------- bounds
\* Number of nodes the parsed input may hold inside <body>.
MaxNodes == 1
\* Number of nodes of a tree handed to the tagger / extractor on its own.
FnMaxNodes == 4
\* Number of deferred callbacks that may be pending at once.
MaxPending == 2

\* ---------------------------------------------------------- constants
ELEMENT_NODE == 1
TEXT_NODE == 3
DOCUMENT_NODE == 9

NoId == ""
HIGHLIGHTED == "highlighted"
HOVERED == "hovered"
HIGHLIGHTED_NODE == "highlighted-node"

Tags == {"DIV", "SPAN"}
\* the one tag of the markup given to updateTree
BlockTags == {"DIV"}
TextData == {<<" ", "A">>}
\* marker classes, which the input markup may itself carry on an element
MarkerClasses == {HIGHLIGHTED, HOVERED}
MarkupClassLists == {{}, MarkerClasses}

Element(tag, classes, kids) ==
  [nodeType |-> ELEMENT_NODE, tagName |-> tag, id |-> NoId,
   classList |-> classes, data |-> <<>>, childNodes |-> kids]

Text(chars) ==
  [nodeType |-> TEXT_NODE, tagName |-> "#text", id |-> NoId,
   classList |-> {}, data |-> chars, childNodes |-> <<>>]

Document(kids) ==
  [nodeType |-> DOCUMENT_NODE, tagName |-> "#document", id |-> NoId,
   classList |-> {}, data |-> <<>>, childNodes |-> kids]

\* ------------------------------------------------ parser output (inputs)
RECURSIVE ForestsOf(_, _, _), NodesOf(_, _, _)
\* all child sequences of exactly k nodes; a parser never leaves two text
\* nodes adjacent
ForestsOf(k, TS, CS) ==
  IF k = 0 THEN {<<>>}
  ELSE UNION { UNION { { <<n>> \o r : r \in { f \in ForestsOf(k - j, TS, CS) :
                                                ~(Len(f) > 0 /\ n.nodeType = TEXT_NODE
                                                  /\ f[1].nodeType = TEXT_NODE) } }
                       : n \in NodesOf(j, TS, CS) }
               : j \in 1..k }

\* all nodes whose subtree holds exactly j nodes
NodesOf(j, TS, CS) ==
  (IF j = 1 THEN {Text(d) : d \in TextData} ELSE {})
  \cup { Element(t, c, kids) : t \in TS, c \in CS, kids \in ForestsOf(j - 1, TS, CS) }

\* documentElement of DOMParser.parseFromString(html, "text/html"): always
\* <html><head></head><body>...</body></html>
HtmlDocument(content) ==
  Element("HTML", {}, <<Element("HEAD", {}, <<>>), Element("BODY", {}, content)>>)

Inputs ==
  { HtmlDocument(f) : f \in UNION { ForestsOf(k, BlockTags, MarkupClassLists) : k \in 0..MaxNodes } }

\* nodes handed to the tagger and the extractor directly: element roots,
\* a lone text node, and a document node holding an element
FnInputs ==
  UNION { NodesOf(k, Tags, {{}}) : k \in 1..FnMaxNodes }
  \cup { Document(<<e>>) : e \in { n \in UNION { NodesOf(k, Tags, {{}}) : k \in 1..(FnMaxNodes - 1) } :
                                    n.nodeType = ELEMENT_NODE } }

\* ------------------------------------------------------ Identity Tagger
NodeId(n) == "node-" \o ToString(n)

RECURSIVE assignIdsToElements(_, _), AssignForEach(_, _)

\* mutant: a node that is not an element is skipped but its children are visited
assignIdsVisitingAll(element, counter) ==
  IF element.nodeType = ELEMENT_NODE
  THEN LET kids == AssignForEach(element.childNodes, counter + 1)
       IN  [node |-> [element EXCEPT !.id = NodeId(counter), !.childNodes = kids.nodes],
            counter |-> kids.counter]
  ELSE LET kids == AssignForEach(element.childNodes, counter)
       IN  [node |-> [element EXCEPT !.childNodes = kids.nodes], counter |-> kids.counter]

\* mutant: the identifier is taken after the children were tagged (post-order)
assignIdsPostOrder(element, counter) ==
  IF element.nodeType = ELEMENT_NODE
  THEN LET kids == AssignForEach(element.childNodes, counter)
       IN  [node |-> [element EXCEPT !.id = NodeId(kids.counter), !.childNodes = kids.nodes],
            counter |-> kids.counter + 1]
  ELSE [node |-> element, counter |-> counter]

\* the tagged node and the value of nodeIdCounter after the call
assignIdsToElements(element, counter) ==
  IF element.nodeType = ELEMENT_NODE
  THEN LET kids == AssignForEach(element.childNodes, counter + 1)
       IN  [node |-> [element EXCEPT !.id = NodeId(counter), !.childNodes = kids.nodes],
            counter |-> kids.counter]
  ELSE [node |-> element, counter |-> counter]

\* element.childNodes.forEach(child => assignIdsToElements(child))
AssignForEach(childNodes, counter) ==
  IF Len(childNodes) = 0 THEN [nodes |-> <<>>, counter |-> counter]
  ELSE LET h == assignIdsToElements(Head(childNodes), counter)
           t == AssignForEach(Tail(childNodes), h.counter)
       IN  [nodes |-> <<h.node>> \o t.nodes, counter |-> t.counter]

\* ------------------------------------------------------- Tree Extractor
NullTree == [nodeId |-> NoId, name |-> "#null", textContent |-> <<>>, children |-> <<>>]

ToLowerCase(tagName) ==
  CASE tagName = "HTML" -> "html"
    [] tagName = "HEAD" -> "head"
    [] tagName = "BODY" -> "body"
    [] tagName = "DIV"  -> "div"
    [] tagName = "SPAN" -> "span"
    [] OTHER -> tagName

RECURSIVE TextContentOf(_), ConcatText(_)
\* Node.textContent: the concatenated data of all descendant text nodes
TextContentOf(node) ==
  IF node.nodeType = TEXT_NODE THEN node.data ELSE ConcatText(node.childNodes)

ConcatText(childNodes) ==
  IF Len(childNodes) = 0 THEN <<>>
  ELSE TextContentOf(Head(childNodes)) \o ConcatText(Tail(childNodes))

RECURSIVE TrimStart(_), TrimEnd(_)
TrimStart(s) == IF Len(s) > 0 /\ Head(s) = " " THEN TrimStart(Tail(s)) ELSE s
TrimEnd(s) == IF Len(s) > 0 /\ s[Len(s)] = " " THEN TrimEnd(SubSeq(s, 1, Len(s) - 1)) ELSE s
Trim(s) == TrimEnd(TrimStart(s))

RECURSIVE convertToTree(_), ConvertForEach(_), ConvertForEachReversed(_)

\* mutant: each child tree is put in front of the list instead of pushed
ConvertForEachReversed(childNodes) ==
  IF Len(childNodes) = 0 THEN <<>>
  ELSE LET childTree == convertToTree(Head(childNodes))
       IN  ConvertForEachReversed(Tail(childNodes))
           \o (IF childTree # NullTree THEN <<childTree>> ELSE <<>>)

convertToTree(element) ==
  IF element.nodeType # ELEMENT_NODE THEN NullTree
  ELSE [nodeId |-> element.id,
        name |-> ToLowerCase(element.tagName),
        textContent |-> Trim(TextContentOf(element)),
        children |-> ConvertForEach(element.childNodes)]

\* element.childNodes.forEach(child => { ...; if (childTree) children.push(childTree) })
ConvertForEach(childNodes) ==
  IF Len(childNodes) = 0 THEN <<>>
  ELSE LET childTree == convertToTree(Head(childNodes))
       IN  (IF childTree # NullTree THEN <<childTree>> ELSE <<>>)
           \o ConvertForEach(Tail(childNodes))

\* ----------------------------------------------------- Preview Renderer
\* element.outerHTML: the markup as a sequence of tokens
RECURSIVE outerHTML(_), InnerHTML(_)
outerHTML(node) ==
  IF node.nodeType = TEXT_NODE
  THEN << [kind |-> "text", tagName |-> "#text", id |-> NoId, classList |-> {},
           data |-> node.data] >>
  ELSE << [kind |-> "open", tagName |-> node.tagName, id |-> node.id,
           classList |-> node.classList, data |-> <<>>] >>
       \o InnerHTML(node.childNodes)
       \o << [kind |-> "close", tagName |-> node.tagName, id |-> NoId, classList |-> {},
              data |-> <<>>] >>

InnerHTML(childNodes) ==
  IF Len(childNodes) = 0 THEN <<>>
  ELSE outerHTML(Head(childNodes)) \o InnerHTML(Tail(childNodes))

\* doc.write(html): the document built from the tokens, as the table of its
\* nodes in document order; parent is the index of the parent node (0 for
\* the root) and listeners the number of click listeners on the node
RECURSIVE Write(_, _, _)
Write(tokens, nodes, open) ==
  IF Len(tokens) = 0 THEN nodes
  ELSE LET t == Head(tokens)
           parent == IF Len(open) = 0 THEN 0 ELSE open[Len(open)]
       IN  CASE t.kind = "open" ->
                  Write(Tail(tokens),
                        Append(nodes, [nodeType |-> ELEMENT_NODE, tagName |-> t.tagName,
                                       id |-> t.id, classList |-> t.classList,
                                       data |-> <<>>, parent |-> parent, listeners |-> 0]),
                        Append(open, Len(nodes) + 1))
             [] t.kind = "text" ->
                  Write(Tail(tokens),
                        Append(nodes, [nodeType |-> TEXT_NODE, tagName |-> "#text",
                                       id |-> NoId, classList |-> {},
                                       data |-> t.data, parent |-> parent, listeners |-> 0]),
                        open)
             [] OTHER -> Write(Tail(tokens), nodes, SubSeq(open, 1, Len(open) - 1))

\* doc.open(); doc.write(html); doc.close(): the prior content is discarded
renderHTML(doc, html) == Write(html, <<>>, <<>>)

\* the document of the frame before anything was rendered into it
BlankDocument == renderHTML(<<>>, outerHTML(HtmlDocument(<<>>)))

\* doc.querySelector("[data-node-id='" + nodeId + "']"): the first match in
\* document order, 0 when there is none
querySelector(doc, nodeId) ==
  LET hits == { i \in DOMAIN doc : doc[i].nodeType = ELEMENT_NODE /\ doc[i].id # NoId
                                   /\ doc[i].id = nodeId }
  IN  IF hits = {} THEN 0 ELSE CHOOSE i \in hits : \A j \in hits : i <= j

\* ------------------------------------------------- Highlight Coordinator
\* d3.selectAll(".node").classed("highlighted-node", false)
resetTreeHighlights(viz) ==
  [i \in DOMAIN viz |-> [viz[i] EXCEPT !.classList = @ \ {HIGHLIGHTED_NODE}]]

\* mutant: only the selected marker is removed, the hovered one is kept
resetHTMLHighlightsKeepHover(doc) ==
  [i \in DOMAIN doc |-> [doc[i] EXCEPT !.classList = @ \ {HIGHLIGHTED}]]

resetHTMLHighlights(doc) ==
  [i \in DOMAIN doc |-> [doc[i] EXCEPT !.classList = @ \ {HIGHLIGHTED, HOVERED}]]

\* mutant: the previous selection is not cleared on the tree
highlightVizNoReset(viz, nodeId) ==
  [i \in DOMAIN viz |->
     IF viz[i].data.nodeId = nodeId
     THEN [viz[i] EXCEPT !.classList = @ \cup {HIGHLIGHTED_NODE}]
     ELSE viz[i]]

\* highlightTreeNode, lines 100-105: its effect on the tree visualization
highlightViz(viz, nodeId) ==
  LET reset == resetTreeHighlights(viz)
  IN  [i \in DOMAIN reset |->
         IF reset[i].data.nodeId = nodeId
         THEN [reset[i] EXCEPT !.classList = @ \cup {HIGHLIGHTED_NODE}]
         ELSE reset[i]]

\* highlightTreeNode, lines 106-112: its effect on the preview surface
highlightDoc(doc, nodeId) ==
  LET reset == resetHTMLHighlights(doc)
      el == querySelector(reset, nodeId)
  IN  IF el # 0 THEN [reset EXCEPT ![el].classList = @ \cup {HIGHLIGHTED}] ELSE reset

\* mutant: hovering starts by clearing every marker of the preview surface
highlightHTMLSideResetting(doc, nodeId) ==
  LET reset == resetHTMLHighlights(doc)
      el == querySelector(reset, nodeId)
  IN  IF el # 0 THEN [reset EXCEPT ![el].classList = @ \cup {HOVERED}] ELSE reset

highlightHTMLSide(doc, nodeId) ==
  LET el == querySelector(doc, nodeId)
  IN  IF el # 0 THEN [doc EXCEPT ![el].classList = @ \cup {HOVERED}] ELSE doc

\* mutant: the selected marker is removed instead of the hovered one
unhighlightHTMLSideWrongClass(doc, nodeId) ==
  LET el == querySelector(doc, nodeId)
  IN  IF el # 0 THEN [doc EXCEPT ![el].classList = @ \ {HIGHLIGHTED}] ELSE doc

unhighlightHTMLSide(doc, nodeId) ==
  LET el == querySelector(doc, nodeId)
  IN  IF el # 0 THEN [doc EXCEPT ![el].classList = @ \ {HOVERED}] ELSE doc

\* ------------------------------------------------------- Tree Visualizer
\* d3.hierarchy(rootData).descendants(): the nodes in breadth-first order
RECURSIVE Descendants(_)
Descendants(queue) ==
  IF Len(queue) = 0 THEN <<>>
  ELSE <<Head(queue)>> \o Descendants(Tail(queue) \o Head(queue).children)

\* mutant: the prior drawing is left on the canvas
KeepSvg(viz) == viz

\* svg.selectAll("*").remove()
ClearSvg(viz) == <<>>

\* one g.node per descendant, bound to its datum, without any marker class
drawTree(viz, rootData) ==
  LET ds == Descendants(<<rootData>>)
  IN  ClearSvg(viz) \o [i \in 1..Len(ds) |-> [data |-> ds[i], classList |-> {}]]

\* ---------------------------------------------------------------- state
VARIABLES
  nodeIdCounter,  \* the global counter of line 1
  frame,          \* the document of iframe#renderedFrame: its node table
  treeViz,        \* the g.node groups of svg#treeViz with their bound data
  timers,         \* number of setTimeout callbacks not yet run
  pointer,        \* index of the tree node the pointer is over, 0 for none
  last,           \* the operation that ran last; hit: whether its identifier
                  \* matched an element (for an update: whether a marker was
                  \* set when it began); input: the markup an update was given
  inputHovered,   \* whether the markup of the last update carried class "hovered"
  fired,          \* number of deferred callbacks run since the last update
  fnPc,           \* tagger / extractor run on their own: position
  fnInput,        \*   the node handed in
  fnTagged,       \*   the node after assignIdsToElements
  fnTree          \*   the result of convertToTree

vars == <<nodeIdCounter, frame, treeViz, timers, pointer, last, inputHovered, fired,
          fnPc, fnInput, fnTagged, fnTree>>
fnVars == <<fnPc, fnInput, fnTagged, fnTree>>

NoInput == Text(<<>>)

Elements(doc) == { i \in DOMAIN doc : doc[i].nodeType = ELEMENT_NODE }
WithClass(nodes, c) == { i \in DOMAIN nodes : c \in nodes[i].classList }
\* whether nodeId matches an element of the preview or a node of the tree
Matches(viz, doc, nodeId) ==
  querySelector(doc, nodeId) # 0 \/ \E i \in DOMAIN viz : viz[i].data.nodeId = nodeId
AnyMarker(viz, doc) ==
  WithClass(viz, HIGHLIGHTED_NODE) \cup WithClass(doc, HIGHLIGHTED) \cup WithClass(doc, HOVERED) # {}
Op(op, hit, input) == [op |-> op, hit |-> hit, input |-> input]

\* identifiers a caller may pass: those of every element a document can
\* hold, and one more that never matches
IdArgs == { NodeId(k) : k \in 0..(MaxNodes + 3) }

Init ==
  /\ nodeIdCounter = 0
  /\ frame = BlankDocument
  /\ treeViz = <<>>
  /\ timers = 0
  /\ pointer = 0
  /\ last = Op("load", FALSE, NoInput)
  /\ inputHovered = FALSE
  /\ fired = 0
  /\ fnPc = "idle"
  /\ fnInput = NoInput
  /\ fnTagged = NoInput
  /\ fnTree = NullTree

\* ---------------------------------------------------- Update Orchestrator
\* mutant: the counter is not reset before tagging
KeepCounter(counter) == counter

\* nodeIdCounter = 0
ResetCounter(counter) == 0

\* lines 219-229: parse result html, tagging, rendering, extraction, drawing
UpdateResult(counter, doc, viz, html) ==
  LET tagged == assignIdsToElements(html, ResetCounter(counter))
      treeData == convertToTree(tagged.node)
  IN  [counter |-> tagged.counter,
       frame |-> renderHTML(doc, outerHTML(tagged.node)),
       viz |-> IF treeData # NullTree THEN drawTree(viz, treeData) ELSE viz]

RECURSIVE HasClass(_, _), AnyHasClass(_, _)
HasClass(node, c) == c \in node.classList \/ AnyHasClass(node.childNodes, c)
AnyHasClass(childNodes, c) ==
  Len(childNodes) > 0 /\ (HasClass(Head(childNodes), c) \/ AnyHasClass(Tail(childNodes), c))

updateTree(html) ==
  /\ timers < MaxPending
  /\ LET r == UpdateResult(nodeIdCounter, frame, treeViz, html)
     IN  /\ nodeIdCounter' = r.counter
         /\ frame' = r.frame
         /\ treeViz' = r.viz
  /\ timers' = timers + 1
  /\ pointer' = 0   \* the circle under the pointer is removed with the old drawing
  /\ fired' = 0
  /\ last' = Op("update", AnyMarker(treeViz, frame), html)
  /\ UNCHANGED fnVars

\* doc.querySelectorAll("[data-node-id]").forEach(el => el.addEventListener("click", ...))
addClickEventsToRenderedElements(doc) ==
  [i \in DOMAIN doc |->
     IF doc[i].nodeType = ELEMENT_NODE /\ doc[i].id # NoId
     THEN [doc[i] EXCEPT !.listeners = @ + 1]
     ELSE doc[i]]

\* the callback of setTimeout(..., 100) runs
TimerFires ==
  /\ timers > 0
  /\ timers' = timers - 1
  /\ frame' = addClickEventsToRenderedElements(frame)
  /\ fired' = fired + 1
  /\ last' = Op("timer", FALSE, NoInput)
  /\ UNCHANGED <<nodeIdCounter, treeViz, pointer, inputHovered, fnVars>>

\* highlightTreeNode(nodeId) on both surfaces
highlightTreeNode(viz, doc, nodeId) ==
  [viz |-> highlightViz(viz, nodeId), frame |-> highlightDoc(doc, nodeId)]

SelectCall(nodeId) ==
  /\ LET r == highlightTreeNode(treeViz, frame, nodeId)
     IN  treeViz' = r.viz /\ frame' = r.frame
  /\ last' = Op("select", Matches(treeViz, frame, nodeId), NoInput)
  /\ UNCHANGED <<nodeIdCounter, timers, pointer, inputHovered, fired, fnVars>>

\* mutant: the listener does not stop the event
NeverStops(n) == FALSE

\* event.stopPropagation() in each of the n listeners of the element
StopsPropagation(n) == n > 0

\* the n listeners of one element run: each selects the element's identifier
RECURSIVE RunListeners(_, _, _, _)
RunListeners(viz, doc, el, n) ==
  IF n = 0 THEN [viz |-> viz, frame |-> doc]
  ELSE LET r == highlightTreeNode(viz, doc, doc[el].id)
       IN  RunListeners(r.viz, r.frame, el, n - 1)

\* a click event at element el, bubbling to its ancestors unless stopped
RECURSIVE DispatchClick(_, _, _)
DispatchClick(viz, doc, el) ==
  IF el = 0 THEN [viz |-> viz, frame |-> doc]
  ELSE LET r == RunListeners(viz, doc, el, doc[el].listeners)
       IN  IF StopsPropagation(doc[el].listeners) THEN r
           ELSE DispatchClick(r.viz, r.frame, doc[el].parent)

\* the user clicks an element of the preview
PreviewClick(el) ==
  /\ frame[el].nodeType = ELEMENT_NODE
  /\ LET r == DispatchClick(treeViz, frame, el)
     IN  treeViz' = r.viz /\ frame' = r.frame
  /\ last' = Op("click", frame[el].listeners > 0, NoInput)
  /\ UNCHANGED <<nodeIdCounter, timers, pointer, inputHovered, fired, fnVars>>

HoverSet(nodeId) ==
  /\ frame' = highlightHTMLSide(frame, nodeId)
  /\ last' = Op("hover", querySelector(frame, nodeId) # 0, NoInput)
  /\ UNCHANGED <<nodeIdCounter, treeViz, timers, pointer, inputHovered, fired, fnVars>>

HoverClear(nodeId) ==
  /\ frame' = unhighlightHTMLSide(frame, nodeId)
  /\ last' = Op("unhover", querySelector(frame, nodeId) # 0, NoInput)
  /\ UNCHANGED <<nodeIdCounter, treeViz, timers, pointer, inputHovered, fired, fnVars>>

\* the operations as any caller may issue them
Next ==
  \/ \E html \in Inputs : updateTree(html) /\ UNCHANGED inputHovered
  \/ TimerFires
  \/ \E nodeId \in IdArgs : SelectCall(nodeId)
  \/ \E el \in DOMAIN frame : PreviewClick(el)
  \/ \E nodeId \in IdArgs : HoverSet(nodeId)
  \/ \E nodeId \in IdArgs : HoverClear(nodeId)

Spec == Init /\ [][Next]_vars

\* ------------------------------------------- the handlers of a tree node
\* circle.on("click"): the pointer is on the node
CircleClick(i) ==
  /\ pointer = i
  /\ SelectCall(treeViz[i].data.nodeId)

\* circle.on("mouseover"): the pointer enters node i
MouseOver(i) ==
  /\ pointer = 0
  /\ pointer' = i
  /\ frame' = highlightHTMLSide(frame, treeViz[i].data.nodeId)
  /\ last' = Op("hover", querySelector(frame, treeViz[i].data.nodeId) # 0, NoInput)
  /\ UNCHANGED <<nodeIdCounter, treeViz, timers, inputHovered, fired, fnVars>>

\* circle.on("mouseout"): the pointer leaves the node it is on
MouseOut ==
  /\ pointer # 0
  /\ pointer' = 0
  /\ frame' = unhighlightHTMLSide(frame, treeViz[pointer].data.nodeId)
  /\ last' = Op("unhover", querySelector(frame, treeViz[pointer].data.nodeId) # 0, NoInput)
  /\ UNCHANGED <<nodeIdCounter, treeViz, timers, inputHovered, fired, fnVars>>

\* the operations as the page's own handlers issue them for one pointer
NextUI ==
  \/ \E html \in Inputs : updateTree(html) /\ inputHovered' = HasClass(html, HOVERED)
  \/ TimerFires
  \/ \E i \in DOMAIN treeViz : CircleClick(i)
  \/ \E el \in DOMAIN frame : PreviewClick(el)
  \/ \E i \in DOMAIN treeViz : MouseOver(i)
  \/ MouseOut

SpecUI == Init /\ [][NextUI]_vars

\* --------------------------------- tagger and extractor run on their own
InitFn ==
  /\ nodeIdCounter = 0
  /\ frame = BlankDocument
  /\ treeViz = <<>>
  /\ timers = 0
  /\ pointer = 0
  /\ last = Op("load", FALSE, NoInput)
  /\ inputHovered = FALSE
  /\ fired = 0
  /\ fnPc = "parsed"
  /\ fnInput \in FnInputs
  /\ fnTagged = NoInput
  /\ fnTree = NullTree

\* assignIdsToElements(fnInput) with the counter at zero
Tag ==
  /\ fnPc = "parsed"
  /\ LET r == assignIdsToElements(fnInput, nodeIdCounter)
     IN  fnTagged' = r.node /\ nodeIdCounter' = r.counter
  /\ fnPc' = "tagged"
  /\ UNCHANGED <<frame, treeViz, timers, pointer, last, inputHovered, fired, fnInput, fnTree>>

\* convertToTree(fnTagged)
Extract ==
  /\ fnPc = "tagged"
  /\ fnTree' = convertToTree(fnTagged)
  /\ fnPc' = "extracted"
  /\ UNCHANGED <<nodeIdCounter, frame, treeViz, timers, pointer, last, inputHovered, fired,
                 fnInput, fnTagged>>

NextFn == Tag \/ Extract

SpecFn == InitFn /\ [][NextFn]_vars

\* ------------------------------------------------- document order, counts
RECURSIVE DocOrder(_), DocOrderAll(_)
\* a node followed by its descendants, in depth-first pre-order
DocOrder(node) == <<node>> \o DocOrderAll(node.childNodes)
DocOrderAll(childNodes) ==
  IF Len(childNodes) = 0 THEN <<>>
  ELSE DocOrder(Head(childNodes)) \o DocOrderAll(Tail(childNodes))

IsElement(node) == node.nodeType = ELEMENT_NODE
ElementsOf(node) == SelectSeq(DocOrder(node), IsElement)
Range(seq) == { seq[i] : i \in DOMAIN seq }

RECURSIVE TreeNodes(_), TreeNodesAll(_)
\* the Tree Nodes of an extracted tree, root first
TreeNodes(tree) == IF tree = NullTree THEN <<>> ELSE <<tree>> \o TreeNodesAll(tree.children)
TreeNodesAll(children) ==
  IF Len(children) = 0 THEN <<>>
  ELSE TreeNodes(Head(children)) \o TreeNodesAll(Tail(children))

RECURSIVE Mirrors(_, _)
\* tree carries element's identifier and its children are the Tree Nodes of
\* element's element children, in their order
Mirrors(tree, element) ==
  LET kids == SelectSeq(element.childNodes, IsElement)
  IN  /\ tree.nodeId = element.id
      /\ Len(tree.children) = Len(kids)
      /\ \A i \in DOMAIN kids : Mirrors(tree.children[i], kids[i])

\* ------------------------------------------------------------------ C2
\* C2: tagging an element root with the counter at zero gives each of the N
\* elements one identifier, the k-th element in document pre-order getting
\* node-(k-1); nodes that are not elements get none; the counter ends at N.
C2_PreOrderIds ==
  (fnPc \in {"tagged", "extracted"} /\ IsElement(fnInput)) =>
    LET els == ElementsOf(fnTagged)
        N == Len(ElementsOf(fnInput))
    IN  /\ Len(els) = N
        /\ \A k \in 1..N : els[k].id = NodeId(k - 1)
        /\ Cardinality({ els[k].id : k \in 1..N }) = N
        /\ \A n \in Range(DocOrder(fnTagged)) : ~IsElement(n) => n.id = NoId
        /\ nodeIdCounter = N

C2_Witness ==
  /\ fnPc = "tagged"
  /\ IsElement(fnInput)
  /\ Len(ElementsOf(fnTagged)) = 3
  /\ Len(fnTagged.childNodes) = 1
  /\ fnTagged.childNodes[1].childNodes[1].id = NodeId(2)

\* ------------------------------------------------------------------ C3
\* C3: the tree extracted from a tagged element root has as many Tree Nodes
\* as there are tagged elements, and mirrors them: same identifier, and as
\* children exactly the element children in document order.
C3_StructurePreserving ==
  (fnPc = "extracted" /\ IsElement(fnInput)) =>
    /\ Len(TreeNodes(fnTree)) = Len(ElementsOf(fnTagged))
    /\ Mirrors(fnTree, fnTagged)

C3_Witness ==
  /\ fnPc = "extracted"
  /\ Len(fnTagged.childNodes) = 2
  /\ Len(fnTree.children) = 2
  /\ fnTree.children[1].nodeId = NodeId(1)
  /\ fnTree.children[2].nodeId = NodeId(2)

\* ------------------------------------------------------------------ C9
\* C9 as stated: every element below the root, also one whose parent is not
\* an element, has an identifier after tagging and a Tree Node after
\* extraction.
C9_Original ==
  fnPc = "extracted" =>
    \A e \in Range(ElementsOf(fnTagged)) :
      e.id # NoId /\ \E t \in Range(TreeNodes(fnTree)) : t.nodeId = e.id

\* C9 as amended: a node that is not an element is skipped with everything
\* below it. Under an element root every element is tagged and has its Tree
\* Node and no other node has either; a root that is not an element leaves
\* the tree untagged, the counter untouched and the extraction absent.
C9_SkipsSubtree ==
  fnPc = "extracted" =>
    /\ IsElement(fnInput) =>
         /\ \A n \in Range(DocOrder(fnTagged)) :
              IF IsElement(n)
              THEN n.id # NoId /\ \E t \in Range(TreeNodes(fnTree)) : t.nodeId = n.id
              ELSE n.id = NoId
         /\ Len(TreeNodes(fnTree)) = Len(ElementsOf(fnTagged))
    /\ ~IsElement(fnInput) =>
         /\ fnTagged = fnInput
         /\ nodeIdCounter = 0
         /\ fnTree = NullTree

C9_Witness ==
  /\ fnPc = "extracted"
  /\ fnInput.nodeType = DOCUMENT_NODE
  /\ Len(ElementsOf(fnInput)) = 2
  /\ fnTree = NullTree

\* ------------------------------------------------ markers on the surfaces
\* identifiers of the preview elements / tree nodes carrying a marker
IdsWithClass(doc, c) == { doc[i].id : i \in WithClass(doc, c) }
VizIdsSelected(viz) == { viz[i].data.nodeId : i \in WithClass(viz, HIGHLIGHTED_NODE) }
ClassLists(nodes) == [i \in DOMAIN nodes |-> nodes[i].classList]
\* whether a document was rendered and drawn
Rendered == Len(treeViz) > 0

\* ------------------------------------------------------------------ C1
\* C1: after a selection call (highlightTreeNode with any identifier, or a
\* preview click whose listener ran) at most one tree node and at most one
\* preview element is marked selected, and if either surface marks one both
\* mark the same identifier.
C1_SingleSelection ==
  (last.op = "select" \/ (last.op = "click" /\ last.hit)) =>
    /\ Cardinality(WithClass(treeViz, HIGHLIGHTED_NODE)) <= 1
    /\ Cardinality(WithClass(frame, HIGHLIGHTED)) <= 1
    /\ VizIdsSelected(treeViz) = IdsWithClass(frame, HIGHLIGHTED)

C1_Witness ==
  /\ last.op = "select"
  /\ last.hit
  /\ VizIdsSelected(treeViz) = {NodeId(0)}
  /\ IdsWithClass(frame, HIGHLIGHTED) = {NodeId(0)}
  /\ Cardinality(WithClass(frame, HOVERED)) = 0
  /\ last.input = NoInput

\* ------------------------------------------------------------------ C4
\* identifiers and shape of both views
ViewShape(doc, viz) ==
  [preview |-> [i \in DOMAIN doc |->
                  <<doc[i].nodeType, doc[i].tagName, doc[i].id, doc[i].parent>>],
   tree |-> [i \in DOMAIN viz |-> viz[i].data]]

\* C4: whatever happened before, the views an update leaves have the
\* identifiers and the shape the same markup yields on a freshly loaded
\* page, so two runs with the same markup agree; the numbering restarts
\* at node-0.
C4_Idempotent ==
  last.op = "update" =>
    LET fresh == UpdateResult(0, BlankDocument, <<>>, last.input)
    IN  /\ ViewShape(frame, treeViz) = ViewShape(fresh.frame, fresh.viz)
        /\ nodeIdCounter = fresh.counter
        /\ frame[1].id = NodeId(0)
        /\ treeViz[1].data.nodeId = NodeId(0)

C4_Witness ==
  /\ last.op = "update"
  /\ last.hit
  /\ timers = 2
  /\ nodeIdCounter = 4
  /\ treeViz[4].data.nodeId = NodeId(3)

\* ------------------------------------------------------------------ C5
\* C5 as stated: right after an update no preview element is marked
\* selected or hovered and no tree node is marked selected.
C5_Original ==
  last.op = "update" =>
    /\ WithClass(frame, HIGHLIGHTED) = {}
    /\ WithClass(frame, HOVERED) = {}
    /\ WithClass(treeViz, HIGHLIGHTED_NODE) = {}

\* C5 as amended: right after an update no tree node is marked selected and
\* each preview node carries exactly the marker classes its own class
\* attribute in the markup gave it; no marker set before the call survives.
C5_OnlyMarkupMarkers ==
  last.op = "update" =>
    /\ WithClass(treeViz, HIGHLIGHTED_NODE) = {}
    /\ ClassLists(frame) = ClassLists(DocOrder(last.input))

C5_Witness ==
  /\ last.op = "update"
  /\ last.hit
  /\ ~HasClass(last.input, HIGHLIGHTED)
  /\ ~HasClass(last.input, HOVERED)
  /\ WithClass(frame, HIGHLIGHTED) \cup WithClass(frame, HOVERED) = {}
  /\ Len(treeViz) = 4

\* ------------------------------------------------------------------ C6
\* C6 as stated: at most one preview element is marked hovered.
C6_Original == Cardinality(WithClass(frame, HOVERED)) <= 1

\* C6 as amended: when hover-set and hover-clear come from the tree nodes'
\* mouseover and mouseout handlers for one pointer, and the markup of the
\* current cycle carries no class "hovered", at most one preview element is
\* marked hovered, and it is the one mirroring the node under the pointer.
C6_SingleHoverUI ==
  ~inputHovered =>
    /\ Cardinality(WithClass(frame, HOVERED)) <= 1
    /\ \A i \in WithClass(frame, HOVERED) :
         pointer # 0 /\ frame[i].id = treeViz[pointer].data.nodeId

C6_Witness ==
  /\ ~inputHovered
  /\ last.op = "hover"
  /\ pointer = 3
  /\ IdsWithClass(frame, HOVERED) = {treeViz[3].data.nodeId}
  /\ IdsWithClass(frame, HIGHLIGHTED) = {NodeId(0)}

\* ------------------------------------------------------------------ C7
\* C7 as stated: an operation whose identifier matches nothing leaves the
\* markers of both surfaces as they were.
C7_Original ==
  [][(last'.op \in {"select", "hover", "unhover"} /\ ~last'.hit) =>
       (ClassLists(frame') = ClassLists(frame) /\ ClassLists(treeViz') = ClassLists(treeViz))]_vars

\* C7 as amended: hover-set and hover-clear with an identifier that matches
\* nothing change neither surface; a selection with such an identifier
\* marks nothing but still clears every selected and hovered marker of
\* both surfaces, and changes nothing else.
C7_UnmatchedIdentifier ==
  [][/\ (last'.op \in {"hover", "unhover"} /\ ~last'.hit) =>
          (frame' = frame /\ treeViz' = treeViz)
     /\ (last'.op = "select" /\ ~last'.hit) =>
          /\ frame' = [i \in DOMAIN frame |->
                         [frame[i] EXCEPT !.classList = @ \ {HIGHLIGHTED, HOVERED}]]
          /\ treeViz' = [i \in DOMAIN treeViz |->
                           [treeViz[i] EXCEPT !.classList = @ \ {HIGHLIGHTED_NODE}]]]_vars

C7_Witness ==
  /\ last.op = "select"
  /\ ~last.hit
  /\ Rendered
  /\ ~AnyMarker(treeViz, frame)
  /\ inputHovered = FALSE
  /\ timers = 1

\* ------------------------------------------------------------------ C8
\* C8: hover-set and hover-clear leave the tree visualization as it is and
\* change the preview in at most one element, of which only the hovered
\* marker changes; the selected markers of both surfaces stay.
C8_HoverKeepsSelection ==
  [][last'.op \in {"hover", "unhover"} =>
       /\ treeViz' = treeViz
       /\ DOMAIN frame' = DOMAIN frame
       /\ WithClass(frame', HIGHLIGHTED) = WithClass(frame, HIGHLIGHTED)
       /\ Cardinality({ i \in DOMAIN frame : frame'[i] # frame[i] }) <= 1
       /\ \A i \in DOMAIN frame :
            /\ [frame'[i] EXCEPT !.classList = {}] = [frame[i] EXCEPT !.classList = {}]
            /\ frame'[i].classList \ {HOVERED} = frame[i].classList \ {HOVERED}
            /\ frame'[i] # frame[i] => IsElement(frame[i]) /\ frame[i].id # NoId]_vars

C8_Witness ==
  /\ last.op = "hover"
  /\ last.hit
  /\ IdsWithClass(frame, HIGHLIGHTED) = {NodeId(1)}
  /\ VizIdsSelected(treeViz) = {NodeId(1)}
  /\ IdsWithClass(frame, HOVERED) = {NodeId(1), NodeId(2)}

\* ----------------------------------------------------------------- C10
Wired(doc) == \A el \in Elements(doc) : doc[el].id # NoId => doc[el].listeners >= 1
Unwired(doc) == \A el \in DOMAIN doc : doc[el].listeners = 0
\* a click at el selects el's own identifier, and only it, on both surfaces
ClickSelectsOwn(viz, doc, el) ==
  LET r == DispatchClick(viz, doc, el)
  IN  /\ IdsWithClass(r.frame, HIGHLIGHTED) = {doc[el].id}
      /\ VizIdsSelected(r.viz) = {doc[el].id}
\* a click at el runs no listener
ClickInert(viz, doc, el) == DispatchClick(viz, doc, el) = [viz |-> viz, frame |-> doc]

\* C10 as stated: while a deferred callback of the current update is
\* pending (it is the last to run, so: while any is pending) a preview click
\* selects nothing; once none is pending every identifier-bearing preview
\* element is wired and a click on it selects its own identifier only.
C10_Original ==
  /\ timers > 0 => \A el \in Elements(frame) : ClickInert(treeViz, frame, el)
  /\ (timers = 0 /\ Rendered) =>
       /\ Wired(frame)
       /\ \A el \in Elements(frame) : ClickSelectsOwn(treeViz, frame, el)

\* C10 as amended: a preview click selects nothing from an update until the
\* first deferred callback that runs after it, which may be one an earlier
\* update scheduled; once none is pending every identifier-bearing preview
\* element is wired and a click on it selects its own identifier only.
C10_DeferredWiring ==
  /\ fired = 0 => Unwired(frame) /\ \A el \in Elements(frame) : ClickInert(treeViz, frame, el)
  /\ (timers = 0 /\ Rendered) =>
       /\ Wired(frame)
       /\ \A el \in Elements(frame) : ClickSelectsOwn(treeViz, frame, el)

C10_Witness ==
  /\ last.op = "click"
  /\ last.hit
  /\ timers = 0
  /\ fired = 2
  /\ IdsWithClass(frame, HIGHLIGHTED) = {NodeId(3)}
  /\ VizIdsSelected(treeViz) = {NodeId(3)}

=============================================================================
